---- MODULE Spec2Model ----
(***************************************************************************)
(* A model of alertR's sensor client for the Raspberry Pi                  *)
(* (sensorClientRaspberryPi/lib/sensor.py): the three sensor classes and   *)
(* the poll loop SensorExecuter.execute().                                 *)
(*                                                                         *)
(* Each component has a specification of its own over the shared           *)
(* variables; the variables of the other components keep their initial     *)
(* values:                                                                 *)
(*   SpecExecuter   the poll loop over sensors that implement the          *)
(*                  _PollingSensor interface, within one clock second      *)
(*   SpecTimer      the same poll loop over quiet sensors, with a clock    *)
(*                  that runs long enough for the 60 second timer          *)
(*   SpecPolling    RaspberryPiGPIOPollingSensor                           *)
(*   SpecInterrupt  RaspberryPiGPIOInterruptSensor                         *)
(*   SpecDS18b20    RaspberryPiDS18b20Sensor                               *)
(*   SpecFaulty     the poll loop over a sensor whose methods may raise    *)
(* and of the local server of the manager client                           *)
(* (managerClientDatabase/lib/localServer.py):                             *)
(*   SpecLocalServer  LocalServerSession.handle()                          *)
(***************************************************************************)
EXTENDS Integers, Sequences, FiniteSets

VARIABLES
    \* ---- SensorExecuter and its environment ----
    serverComm,         \* globalData.serverComm: "None" or "comm"
    connection,         \* self.connection of the executer
    connected,          \* what connection.isConnected() returns
    isInitialized,      \* self._isInitialized
    pc,                 \* position of execute(): wait, check, poll, force, full
    idx,                \* index of the sensor the for loop is at
    state,              \* sensor.state of every sensor
    cfg,                \* the configuration of every sensor
    oldState,           \* local oldState of execute()
    currentState,       \* local currentState of execute()
    forceRet,           \* what the last forceSendAlert()/forceSendState() returned
    dispatched,         \* the AsynchronousSender tasks the last step started
    lastFullStateSent,  \* local lastFullStateSent of execute()
    now,                \* int(time.time())
    running,            \* number of AsynchronousSender threads alive (saturating)
    sendFailed,         \* history: some AsynchronousSender failed to send
    lastSnap,           \* history: time of the last snapshot dispatch
    steady,             \* history: connected without a break since lastSnap
    cycled,             \* history: the loop's last pass in the current clock second
    prevState,          \* history: the state line 593 read in the last iteration
    lastDiff,           \* history: the sensor of the last event of the diff path
    afterDrop,          \* history: the connection broke before the last snapshot
    forceCalls,         \* history: the calls of forceSendState() on each
                        \* sensor since the cycle began
    cycleEvents,        \* history: the sensors whose iteration of the
                        \* transition pass dispatched an event in this cycle
    \* ---- the clock the sensors read ----
    sensorTime,         \* int(time.time())
    \* ---- RaspberryPiGPIOPollingSensor ----
    gpio,               \* the level of the pin, GPIO.input(self.gpioPin)
    pState,             \* self.state
    currStateCtr,       \* self.currStateCtr
    thresStateCtr,      \* self.thresStateCtr
    diffRun,            \* history: the last reads in a row that differ from state
    flipRun,            \* history: diffRun, the read included, at the last change
    \* ---- RaspberryPiGPIOInterruptSensor ----
    iState,             \* self.state
    internalState,      \* self._internalState
    lastTimeTriggered,  \* self.lastTimeTriggered
    edgeCounter,        \* self.edgeCounter
    icfg,               \* triggerState, delayBetweenTriggers,
                        \* timeSensorTriggered, edgeCountBeforeTrigger
    ipc,                \* position of updateState(): idle, assign
    burstStart,         \* history: time of the first callback of the burst
    burstLen,           \* history: callbacks of the burst so far
    burstNormal,        \* history: the sensor was normal when the burst began
    flips,              \* history: changes to triggered seen since it began
    synced,             \* history: updateState() ran after the last callback
    expired,            \* history: the condition of lines 313-315 as the
                        \* last updateState() found it
    committed,          \* history: a callback has set the triggered state
                        \* and no updateState() has completed since
    initRet,            \* the outcome of initializeSensor()
    registered,         \* GPIO.add_event_detect() has registered the callback
    hwValid,            \* history: pulledUpOrDown and edge were both 0 or 1
    \* ---- RaspberryPiDS18b20Sensor ----
    dsState,            \* self.state
    sensorData,         \* self.sensorData
    cachedData,         \* self._sensorData
    lastTemperatureUpdate, \* self.lastTemperatureUpdate
    lastUpdate,         \* self.lastUpdate
    dcfg,               \* triggerState, interval, hasThreshold, threshold,
                        \* ordering
    dpc,                \* new, failed, idle; copy: updateState() at line 455
    threads,            \* the _updateData threads alive
    started,            \* history: number of refreshes started
    cachedFrom,         \* history: the refresh that wrote cachedData
    dsRet,              \* what the last forceSendState() returned
    dsPrev,             \* history: state before the last updateState()
    dsSentAt,           \* history: time of the last StateChange returned,
                        \* of initializeSensor() before the first
    dsAlertRet,         \* what the last forceSendAlert() returned
    evaluated,          \* history: the value the last updateState() compared
                        \* with the threshold
    \* ---- LocalServerSession (managerClientDatabase/lib/localServer.py) ----
    data,               \* the request of the local client
    hpc,                \* position of handle(): start, parse, extract, type,
                        \* option, done; raised: left by an exception
    incomingMessage,    \* local incomingMessage of handle()
    message,            \* the message last passed to self.request.send()
    written,            \* that send() wrote the message to the client
    recvs,              \* calls of self.request.recv()
    sends,              \* calls of self.request.send()
    optionCalls,        \* calls of self.serverComm.sendOption()
    optionResult        \* what sendOption() returned

execVars == <<serverComm, connection, connected, isInitialized, pc, idx, state,
              cfg, oldState, currentState, forceRet, dispatched,
              lastFullStateSent, now, running, sendFailed, lastSnap, steady,
              cycled, prevState, lastDiff, afterDrop, forceCalls,
              cycleEvents>>

pollVars == <<gpio, pState, currStateCtr, thresStateCtr, diffRun, flipRun>>

intrVars == <<iState, internalState, lastTimeTriggered, edgeCounter, icfg, ipc,
              burstStart, burstLen, burstNormal, flips, synced, expired,
              committed, initRet, registered, hwValid>>

dsVars == <<dsState, sensorData, cachedData, lastTemperatureUpdate,
            lastUpdate, dcfg, dpc, threads, started, cachedFrom, dsRet,
            dsPrev, dsSentAt, dsAlertRet, evaluated>>

lsVars == <<data, hpc, incomingMessage, message, written, recvs, sends,
            optionCalls, optionResult>>

vars == <<execVars, sensorTime, pollVars, intrVars, dsVars, lsVars>>

\* What a step of one component leaves unchanged.
ExecuterOnly == UNCHANGED <<sensorTime, pollVars, intrVars, dsVars, lsVars>>
PollingOnly == UNCHANGED <<execVars, sensorTime, intrVars, dsVars, lsVars>>
InterruptOnly == UNCHANGED <<execVars, pollVars, dsVars, lsVars>>
DS18b20Only == UNCHANGED <<execVars, pollVars, intrVars, lsVars>>
LocalServerOnly ==
    UNCHANGED <<execVars, sensorTime, pollVars, intrVars, dsVars>>

----------------------------------------------------------------------------
(* Bounds of the model. *)

\* Number of sensors in globalData.sensors.
NumSensors == 2
\* The clock advances at most this many seconds in SpecTimer.
MaxTime == 63
\* AsynchronousSender threads counted individually; more count as this many.
MaxRunning == 2

\* The sensors' clock advances at most this many seconds.
MaxSensorTime == 3
\* Largest thresStateCtr configured.
MaxThres == 3
\* updateState() of the polling sensor is followed while currStateCtr is
\* below this.
MaxCtr == 6
\* Largest delayBetweenTriggers configured.
MaxDelay == 2
\* Largest timeSensorTriggered configured.
MaxHold == 2
\* Largest edgeCountBeforeTrigger configured.
MaxEdges == 3
\* The interrupt callback is followed while edgeCounter is below this.
MaxEdgeCounter == 4

\* Largest interval configured for the temperature sensor.
MaxInterval == 2
\* The readings of the temperature sensor are 0..MaxTemp (the number after
\* "t=" in the sensor file).
MaxTemp == 2
\* Refreshes of the temperature followed in a behaviour.
MaxRefreshes == 2
\* Largest threshold configured for the temperature sensor.
MaxThreshold == 1
\* Seconds of the temperature sensor's clock followed in a behaviour.
MaxDSTime == 4

(* Program constants. *)

\* The value int(time.time()) has when the executer starts.
StartTime == 100
\* Seconds after which the full sensor state is sent again.
FullStateInterval == 60
\* A state that was never read (None).
NoState == -1
\* lastFullStateSent before the first snapshot.
NoSnapshot == 0
\* lastTimeTriggered of a sensor that never triggered.
NeverTriggered == 0
\* sensorData and _sensorData before a temperature was read (None).
NoData == -1
\* self.refreshInterval, the seconds between two refreshes of the temperature.
RefreshInterval == 60
\* lastUpdate and lastTemperatureUpdate before initializeSensor().
NoTime == 0

SensorIds == 1..NumSensors
Bits == {0, 1}
None == "None"

----------------------------------------------------------------------------
(* Sensors: the attributes of _PollingSensor that execute() reads. *)

\* The configurations of a sensor. "active" is the environment of the sensor:
\* an active sensor's updateState() may change state to either value and its
\* forceSend*() may return an object; a quiet sensor's input never changes
\* and its forceSend*() return None, as those of the GPIO sensors do.
Configs == [triggerState : Bits, triggerAlert : BOOLEAN,
            triggerAlertNormal : BOOLEAN, handlesStateMsgs : BOOLEAN,
            active : BOOLEAN]

BaseConfig(act) == [triggerState |-> 1, triggerAlert |-> TRUE,
                    triggerAlertNormal |-> FALSE, handlesStateMsgs |-> FALSE,
                    active |-> act]

\* An AsynchronousSender task: what it sends (type, and the sensor and the
\* translated state of the SensorAlert or StateChange it carries) and the
\* place in execute() that started it (via).
Task(type, via, sid, st) ==
    [type |-> type, via |-> via, sensor |-> sid, state |-> st]

\* What forceSendAlert() and forceSendState() return for None.
NoObject == Task("none", "none", 0, 0)

\* The SensorAlert objects sensor sid's forceSendAlert() may return.
ForcedAlerts(sid) ==
    IF cfg[sid].active
    THEN {Task("sensorAlert", "forceSendAlert", sid, s) : s \in Bits}
    ELSE {}

\* The StateChange objects sensor sid's forceSendState() may return.
ForcedStates(sid) ==
    IF cfg[sid].active
    THEN {Task("stateChange", "forceSendState", sid, s) : s \in Bits}
    ELSE {}

\* The values sensor sid's state may have after updateState().
UpdatedStates(sid) == IF cfg[sid].active THEN Bits ELSE {state[sid]}

----------------------------------------------------------------------------
(* SensorExecuter.execute(): the decisions of one loop iteration. *)

\* DiffEvent with the raw state of the sensor in the event.
DiffEventRaw(c, sid, cur) ==
    IF cur = c.triggerState
    THEN IF c.triggerAlert
         THEN Task("sensorAlert", "diff", sid, cur)
         ELSE Task("stateChange", "diff", sid, cur)
    ELSE IF c.triggerAlertNormal
         THEN Task("sensorAlert", "diff", sid, cur)
         ELSE Task("stateChange", "diff", sid, cur)

\* DiffEvent with the flag of the triggered state also deciding the event for
\* the normal state.
DiffEventOneFlag(c, sid, cur) ==
    IF cur = c.triggerState
    THEN IF c.triggerAlert
         THEN Task("sensorAlert", "diff", sid, 1)
         ELSE Task("stateChange", "diff", sid, 1)
    ELSE IF c.triggerAlert
         THEN Task("sensorAlert", "diff", sid, 0)
         ELSE Task("stateChange", "diff", sid, 0)

\* Lines 626-737: the event built for a state change of a sensor that does
\* not handle its state messages itself.
DiffEvent(c, sid, cur) ==
    IF cur = c.triggerState
    THEN IF c.triggerAlert
         THEN Task("sensorAlert", "diff", sid, 1)
         ELSE Task("stateChange", "diff", sid, 1)
    ELSE IF c.triggerAlertNormal
         THEN Task("sensorAlert", "diff", sid, 0)
         ELSE Task("stateChange", "diff", sid, 0)

\* TransitionTasks without the comparison of line 616: an event in every cycle
\* in which the sensor is in its triggered state.
TransitionTasksLevel(c, sid, old, cur, fa) ==
    IF fa # NoObject THEN <<fa>>
    ELSE IF old = cur /\ cur # c.triggerState THEN <<>>
    ELSE IF c.handlesStateMsgs THEN <<>>
    ELSE <<DiffEvent(c, sid, cur)>>

\* TransitionTasks without the continue of line 612: the diff path runs after
\* a forced alert.
TransitionTasksNoContinue(c, sid, old, cur, fa) ==
    (IF fa # NoObject THEN <<fa>> ELSE <<>>) \o
    (IF old = cur THEN <<>>
     ELSE IF c.handlesStateMsgs THEN <<>>
     ELSE <<DiffEvent(c, sid, cur)>>)

\* TransitionTasks without the test of line 622.
TransitionTasksNoOptOut(c, sid, old, cur, fa) ==
    IF fa # NoObject THEN <<fa>>
    ELSE IF old = cur THEN <<>>
    ELSE <<DiffEvent(c, sid, cur)>>

\* Lines 599-737: the tasks started for one sensor of the transition pass,
\* given the states read before and after updateState() and the result fa of
\* forceSendAlert().
TransitionTasks(c, sid, old, cur, fa) ==
    IF fa # NoObject THEN <<fa>>
    ELSE IF old = cur THEN <<>>
    ELSE IF c.handlesStateMsgs THEN <<>>
    ELSE <<DiffEvent(c, sid, cur)>>

\* Line 601: oldState after the iteration.
KnownState(old, cur, fa) == IF fa # NoObject THEN cur ELSE old

\* ForceStateTasks with two senders started for one StateChange.
ForceStateTasksTwice(sc) == IF sc # NoObject THEN <<sc, sc>> ELSE <<>>

\* Lines 743-752: the tasks started for one sensor of the forceSendState pass.
ForceStateTasks(sc) == IF sc # NoObject THEN <<sc>> ELSE <<>>

\* FullStateDue one second late.
FullStateDueLate(t, last) == (t - last) > FullStateInterval + 1

\* FullStateDue one second early.
FullStateDueEarly(t, last) == (t - last) >= FullStateInterval

\* Line 757: the full state is due.
FullStateDue(t, last) == (t - last) > FullStateInterval

\* AsynchronousSender.start(): n more threads.
Started(n) == IF running + n > MaxRunning THEN MaxRunning ELSE running + n

----------------------------------------------------------------------------
(* SensorExecuter.execute(): the steps. *)

\* Lines 576-580: wait for the server communication object.
WaitConnection ==
    /\ ExecuterOnly
    /\ pc = "wait"
    /\ IF connection = None
       THEN /\ connection' = serverComm
            /\ UNCHANGED <<isInitialized, pc>>
       ELSE /\ isInitialized' = TRUE
            /\ pc' = "check"
            /\ UNCHANGED connection
    /\ UNCHANGED <<serverComm, connected, idx, state, cfg, forceCalls, cycleEvents, oldState,
                   currentState, forceRet, dispatched, lastFullStateSent, now,
                   running, sendFailed, lastSnap, steady, cycled, prevState, lastDiff, afterDrop>>

\* NotConnected without the continue of line 588: the pass over the sensors
\* starts although the client is not connected.
NotConnectedNoContinue ==
    /\ ExecuterOnly
    /\ pc = "check"
    /\ ~connected
    /\ pc' = "poll"
    /\ idx' = 1
    /\ dispatched' = <<>>
    /\ UNCHANGED <<serverComm, connection, connected, isInitialized, state,
                   cfg, forceCalls, cycleEvents, oldState, currentState, forceRet, lastFullStateSent,
                   now, running, sendFailed, lastSnap, steady, cycled,
                   prevState, lastDiff, afterDrop>>

\* Lines 586-588: not connected, sleep and look again.
NotConnected ==
    /\ ExecuterOnly
    /\ pc = "check"
    /\ ~connected
    /\ cycled' = "slept"
    /\ UNCHANGED <<serverComm, connection, connected, isInitialized, pc, idx,
                   state, cfg, forceCalls, cycleEvents, oldState, currentState, forceRet, dispatched,
                   lastFullStateSent, now, running, sendFailed, lastSnap,
                   steady, prevState, lastDiff, afterDrop>>

\* BeginCycle that joins the send tasks first: a pass over the sensors starts
\* only when no AsynchronousSender is alive.
BeginCycleJoins ==
    /\ ExecuterOnly
    /\ pc = "check"
    /\ connected
    /\ running = 0
    /\ pc' = "poll"
    /\ idx' = 1
    /\ dispatched' = <<>>
    /\ forceCalls' = [i \in SensorIds |-> 0]
    /\ cycleEvents' = {}
    /\ UNCHANGED <<serverComm, connection, connected, isInitialized, state,
                   cfg, oldState, currentState, forceRet, lastFullStateSent,
                   now, running, sendFailed, lastSnap, steady, cycled,
                   prevState, lastDiff, afterDrop>>

\* Lines 586, 591: connected, start the pass over the sensors.
BeginCycle ==
    /\ ExecuterOnly
    /\ pc = "check"
    /\ connected
    /\ pc' = "poll"
    /\ idx' = 1
    /\ dispatched' = <<>>
    /\ forceCalls' = [i \in SensorIds |-> 0]
    /\ cycleEvents' = {}
    /\ UNCHANGED <<serverComm, connection, connected, isInitialized, state,
                   cfg, oldState, currentState, forceRet, lastFullStateSent,
                   now, running, sendFailed, lastSnap, steady, cycled, prevState, lastDiff, afterDrop>>

\* Lines 591-737: one sensor of the transition pass.
PollSensor ==
    /\ ExecuterOnly
    /\ pc = "poll"
    /\ \E new \in UpdatedStates(idx), fa \in ForcedAlerts(idx) \cup {NoObject} :
          LET old == state[idx]
              tasks == TransitionTasks(cfg[idx], idx, old, new, fa)
          IN  /\ state' = [state EXCEPT ![idx] = new]
              /\ currentState' = new
              /\ oldState' = KnownState(old, new, fa)
              /\ forceRet' = fa
              /\ dispatched' = tasks
              /\ cycleEvents' = IF Len(tasks) > 0
                                THEN cycleEvents \cup {idx} ELSE cycleEvents
              /\ running' = Started(Len(tasks))
              /\ prevState' = old
              /\ lastDiff' = IF \E k \in 1..Len(tasks) : tasks[k].via = "diff"
                             THEN idx ELSE lastDiff
    /\ IF idx < NumSensors
       THEN idx' = idx + 1 /\ pc' = "poll"
       ELSE idx' = 1 /\ pc' = "force"
    /\ UNCHANGED <<serverComm, connection, connected, isInitialized, cfg,
                   forceCalls,
                   lastFullStateSent, now, sendFailed, lastSnap, steady,
                   cycled, afterDrop>>

\* Lines 741-752: one sensor of the forceSendState pass.
ForceState ==
    /\ ExecuterOnly
    /\ pc = "force"
    /\ \E sc \in ForcedStates(idx) \cup {NoObject} :
          /\ forceRet' = sc
          /\ dispatched' = ForceStateTasks(sc)
          /\ forceCalls' = [forceCalls EXCEPT ![idx] = @ + 1]
          /\ running' = Started(Len(ForceStateTasks(sc)))
    /\ IF idx < NumSensors
       THEN idx' = idx + 1 /\ pc' = "force"
       ELSE idx' = 1 /\ pc' = "full"
    /\ UNCHANGED <<serverComm, connection, connected, isInitialized, state,
                   cfg, cycleEvents, oldState, currentState, lastFullStateSent, now,
                   sendFailed, lastSnap, steady, cycled, prevState, lastDiff, afterDrop>>

\* Lines 756-771: the full sensor state, when it is due.
FullState ==
    /\ ExecuterOnly
    /\ pc = "full"
    /\ IF FullStateDue(now, lastFullStateSent)
       THEN /\ dispatched' = <<Task("sensorsState", "timer", 0, 0)>>
            /\ running' = Started(1)
            /\ lastFullStateSent' = now
            /\ lastSnap' = now
            /\ steady' = connected
            /\ afterDrop' = (lastSnap # NoSnapshot /\ ~steady)
       ELSE /\ dispatched' = <<>>
            /\ UNCHANGED <<running, lastFullStateSent, lastSnap, steady,
                           afterDrop>>
    /\ pc' = "check"
    /\ cycled' = "checked"
    /\ UNCHANGED <<serverComm, connection, connected, isInitialized, idx,
                   state, cfg, forceCalls, cycleEvents, oldState, currentState, forceRet, now,
                   sendFailed, prevState, lastDiff>>

----------------------------------------------------------------------------
(* The environment of the executer. *)

\* The client creates its ServerCommunication object.
SetServerComm ==
    /\ ExecuterOnly
    /\ serverComm = None
    /\ serverComm' = "comm"
    /\ UNCHANGED <<connection, connected, isInitialized, pc, idx, state, cfg, forceCalls, cycleEvents,
                   oldState, currentState, forceRet, dispatched,
                   lastFullStateSent, now, running, sendFailed, lastSnap,
                   steady, cycled, prevState, lastDiff, afterDrop>>

\* The connection to the server is established.
Connect ==
    /\ ExecuterOnly
    /\ serverComm # None
    /\ ~connected
    /\ connected' = TRUE
    /\ UNCHANGED <<serverComm, connection, isInitialized, pc, idx, state, cfg, forceCalls, cycleEvents,
                   oldState, currentState, forceRet, dispatched,
                   lastFullStateSent, now, running, sendFailed, lastSnap,
                   steady, cycled, prevState, lastDiff, afterDrop>>

\* The connection to the server is lost.
Disconnect ==
    /\ ExecuterOnly
    /\ connected
    /\ connected' = FALSE
    /\ steady' = FALSE
    /\ UNCHANGED <<serverComm, connection, isInitialized, pc, idx, state, cfg, forceCalls, cycleEvents,
                   oldState, currentState, forceRet, dispatched,
                   lastFullStateSent, now, running, sendFailed, lastSnap,
                   cycled, prevState, lastDiff, afterDrop>>

\* An AsynchronousSender thread ends, having sent its message or not.
SenderFinish ==
    /\ ExecuterOnly
    /\ running > 0
    /\ \E ok \in BOOLEAN : sendFailed' = (sendFailed \/ ~ok)
    /\ running' \in IF running = MaxRunning
                    THEN {MaxRunning, MaxRunning - 1}
                    ELSE {running - 1}
    /\ UNCHANGED <<serverComm, connection, connected, isInitialized, pc, idx,
                   state, cfg, forceCalls, cycleEvents, oldState, currentState, forceRet, dispatched,
                   lastFullStateSent, now, lastSnap, steady, cycled, prevState, lastDiff, afterDrop>>

\* A second passes in which the loop looked at the connection or the timer.
TickCycling ==
    /\ ExecuterOnly
    /\ now < StartTime + MaxTime
    /\ cycled # "no"
    /\ now' = now + 1
    /\ cycled' = "no"
    /\ UNCHANGED <<serverComm, connection, connected, isInitialized, pc, idx,
                   state, cfg, forceCalls, cycleEvents, oldState, currentState, forceRet, dispatched,
                   lastFullStateSent, running, sendFailed, lastSnap, steady, prevState, lastDiff, afterDrop>>

----------------------------------------------------------------------------
(* The specifications of the executer. *)

\* SensorExecuter.__init__ and the locals of execute() before its loops.
InitExecuterLocals ==
    /\ connection = serverComm
    /\ isInitialized = FALSE
    /\ pc = "wait"
    /\ idx = 1
    /\ oldState = NoState
    /\ currentState = NoState
    /\ forceRet = NoObject
    /\ dispatched = <<>>
    /\ lastFullStateSent = NoSnapshot
    /\ now = StartTime
    /\ running = 0
    /\ sendFailed = FALSE
    /\ lastSnap = NoSnapshot
    /\ steady = FALSE
    /\ cycled = "no"
    /\ prevState = NoState
    /\ lastDiff = 0
    /\ afterDrop = FALSE
    /\ forceCalls = [i \in SensorIds |-> 0]
    /\ cycleEvents = {}

----------------------------------------------------------------------------
(* The components that a specification leaves out keep these values. *)

IdleClock == sensorTime = StartTime

\* The return value of a method that has not been called.
NotCalled == "not called"

\* What forceSendState() of the temperature sensor returns for None.
NoChange == [state |-> NoState, sensorData |-> NoData]

\* SensorExecuter before execute() is called.
IdleExecuter ==
    /\ serverComm = None
    /\ connected = FALSE
    /\ state = [i \in SensorIds |-> 0]
    /\ cfg = [i \in SensorIds |-> BaseConfig(FALSE)]
    /\ InitExecuterLocals

\* RaspberryPiGPIOPollingSensor.__init__ (lines 136-149).
IdlePolling ==
    /\ gpio = 0
    /\ pState = NoState
    /\ currStateCtr = 0
    /\ thresStateCtr = 1
    /\ diffRun = 0
    /\ flipRun = 0

\* RaspberryPiGPIOInterruptSensor.__init__ (lines 192-236).
IdleInterrupt ==
    /\ iState = NoState
    /\ internalState = NoState
    /\ lastTimeTriggered = NeverTriggered
    /\ edgeCounter = 0
    /\ icfg = [triggerState |-> 1, delayBetweenTriggers |-> 1,
               timeSensorTriggered |-> 0, edgeCountBeforeTrigger |-> 1]
    /\ ipc = "idle"
    /\ burstStart = NeverTriggered
    /\ burstLen = 0
    /\ burstNormal = FALSE
    /\ flips = 0
    /\ synced = FALSE
    /\ expired = FALSE
    /\ committed = FALSE
    /\ initRet = NotCalled
    /\ registered = FALSE
    /\ hwValid = TRUE

\* RaspberryPiDS18b20Sensor.__init__ (lines 333-375).
IdleDS18b20 ==
    /\ dsState = NoState
    /\ sensorData = NoData
    /\ cachedData = NoData
    /\ lastTemperatureUpdate = NoTime
    /\ lastUpdate = NoTime
    /\ dcfg = [triggerState |-> 1, interval |-> 1, hasThreshold |-> FALSE,
               threshold |-> 1, ordering |-> "GT"]
    /\ dpc = "new"
    /\ threads = {}
    /\ started = 0
    /\ cachedFrom = 0
    /\ dsRet = NoChange
    /\ dsPrev = NoState
    /\ dsSentAt = NoTime
    /\ dsAlertRet = NotCalled
    /\ evaluated = NoData

IdleSensors == IdleClock /\ IdlePolling /\ IdleInterrupt /\ IdleDS18b20

\* A request as handle() sees it: what json.loads() makes of the data
\* ("invalid": it raises; "other": a value that is no object), and for an
\* object its "message" and "payload" and the payload's three fields: absent,
\* of a value that str(), float() or int() refuses, or the kind accepted.
Request(j, t, pl, ot, v, td) ==
    [json |-> j, tag |-> t, payload |-> pl, optionType |-> ot, value |-> v,
     timeDelay |-> td]

\* incomingMessage before json.loads() has returned.
Unbound == Request("unbound", "absent", "absent", "absent", "absent", "absent")

\* A message handle() passes to self.request.send().
Message(tag, err, res) ==
    [serverTime |-> "utcTimestamp", message |-> tag, error |-> err,
     result |-> res]

\* No message has been passed to send().
NoMessage == Message("absent", "none", "none")

\* LocalServerSession before handle().
IdleLocalServer ==
    /\ data = Unbound
    /\ hpc = "start"
    /\ incomingMessage = Unbound
    /\ message = NoMessage
    /\ written = FALSE
    /\ recvs = 0
    /\ sends = 0
    /\ optionCalls = 0
    /\ optionResult = NotCalled

\* A second passes on the sensors' clock.
SensorTick ==
    /\ sensorTime < StartTime + MaxSensorTime
    /\ sensorTime' = sensorTime + 1

\* One active sensor, with any configuration, at any place among quiet ones.
InitExecuter ==
    /\ serverComm \in {None, "comm"}
    /\ connected = FALSE
    /\ state \in [SensorIds -> Bits]
    /\ \E k \in SensorIds, c \in {x \in Configs : x.active} :
          cfg = [i \in SensorIds |-> IF i = k THEN c ELSE BaseConfig(FALSE)]
    /\ InitExecuterLocals
    /\ IdleSensors
    /\ IdleLocalServer

\* Quiet sensors, the client connected when the executer starts.
InitTimer ==
    /\ serverComm = "comm"
    /\ connected = TRUE
    /\ state \in [SensorIds -> Bits]
    /\ cfg = [i \in SensorIds |-> BaseConfig(FALSE)]
    /\ InitExecuterLocals
    /\ IdleSensors
    /\ IdleLocalServer

ExecuterStep ==
    \/ WaitConnection
    \/ NotConnected
    \/ BeginCycle
    \/ PollSensor
    \/ ForceState
    \/ FullState

NextExecuter ==
    \/ ExecuterStep
    \/ SetServerComm
    \/ Connect
    \/ Disconnect
    \/ SenderFinish

NextTimer ==
    \/ ExecuterStep
    \/ Connect
    \/ Disconnect
    \/ TickCycling

SpecExecuter == InitExecuter /\ [][NextExecuter]_vars

SpecTimer == InitTimer /\ [][NextTimer]_vars

----------------------------------------------------------------------------
(* SensorExecuter.execute() over a sensor whose methods may raise. *)

\* Lines 593-598: updateState() or forceSendAlert() of an active sensor
\* raises. No statement of execute() catches the exception: it leaves the
\* for loop and the while loop, and execute() ends (pc is "halted"). A raise
\* of forceSendAlert() comes after updateState() has set the state.
PollSensorRaises ==
    /\ ExecuterOnly
    /\ pc = "poll"
    /\ cfg[idx].active
    /\ \E new \in UpdatedStates(idx) :
          /\ state' = [state EXCEPT ![idx] = new]
          /\ currentState' = new
          /\ prevState' = state[idx]
    /\ oldState' = state[idx]
    /\ dispatched' = <<>>
    /\ pc' = "halted"
    /\ UNCHANGED <<serverComm, connection, connected, isInitialized, idx,
                   cfg, forceCalls, cycleEvents, forceRet, lastFullStateSent, now, running,
                   sendFailed, lastSnap, steady, cycled, lastDiff,
                   afterDrop>>

\* Line 743: forceSendState() of an active sensor raises; execute() ends.
ForceStateRaises ==
    /\ ExecuterOnly
    /\ pc = "force"
    /\ cfg[idx].active
    /\ dispatched' = <<>>
    /\ pc' = "halted"
    /\ UNCHANGED <<serverComm, connection, connected, isInitialized, idx,
                   state, cfg, forceCalls, cycleEvents, oldState, currentState, forceRet,
                   lastFullStateSent, now, running, sendFailed, lastSnap,
                   steady, cycled, prevState, lastDiff, afterDrop>>

NextFaulty ==
    \/ ExecuterStep
    \/ PollSensorRaises
    \/ ForceStateRaises
    \/ SetServerComm
    \/ Connect
    \/ Disconnect
    \/ SenderFinish

SpecFaulty == InitExecuter /\ [][NextFaulty]_vars

----------------------------------------------------------------------------
(* RaspberryPiGPIOPollingSensor (lines 134-186). *)

\* Lines 173-178: state and counter after a read r of the pin.
PollingRead(st, ctr, thres, r) ==
    IF r # st
    THEN [state |-> IF ctr + 1 >= thres THEN r ELSE st, ctr |-> ctr + 1]
    ELSE [state |-> st, ctr |-> 0]

\* The level of the pin changes.
GpioEdge ==
    /\ PollingOnly
    /\ gpio' = 1 - gpio
    /\ UNCHANGED <<pState, currStateCtr, thresStateCtr, diffRun, flipRun>>

\* Lines 152-162: initializeSensor().
PollingInitializeSensor ==
    /\ PollingOnly
    /\ pState = NoState
    /\ pState' = gpio
    /\ UNCHANGED <<gpio, currStateCtr, thresStateCtr, diffRun, flipRun>>

\* Lines 169-178: updateState().
PollingUpdateState ==
    /\ PollingOnly
    /\ pState # NoState
    /\ currStateCtr < MaxCtr
    /\ LET res == PollingRead(pState, currStateCtr, thresStateCtr, gpio)
       IN  /\ pState' = res.state
           /\ currStateCtr' = res.ctr
           /\ diffRun' = IF gpio = pState \/ res.state # pState
                         THEN 0 ELSE diffRun + 1
           /\ flipRun' = IF res.state # pState THEN diffRun + 1 ELSE flipRun
    /\ UNCHANGED <<gpio, thresStateCtr>>

InitPolling ==
    /\ gpio \in Bits
    /\ pState = NoState
    /\ currStateCtr = 0
    /\ thresStateCtr \in 1..MaxThres
    /\ diffRun = 0
    /\ flipRun = 0
    /\ IdleExecuter /\ IdleClock /\ IdleInterrupt /\ IdleDS18b20
    /\ IdleLocalServer

NextPolling ==
    \/ GpioEdge
    \/ PollingInitializeSensor
    \/ PollingUpdateState

SpecPolling == InitPolling /\ [][NextPolling]_vars

----------------------------------------------------------------------------
(* RaspberryPiGPIOInterruptSensor (lines 190-327). *)

InterruptConfigs ==
    [triggerState : Bits, delayBetweenTriggers : 1..MaxDelay,
     timeSensorTriggered : 0..MaxHold, edgeCountBeforeTrigger : 1..MaxEdges]

\* Lines 244-258: the callback starts a new count.
CallbackResets(t, last, c) == (t - last) > c.delayBetweenTriggers

\* CallbackCommits one edge early.
CallbackCommitsEarly(ctr, c) == ctr + 1 >= c.edgeCountBeforeTrigger

\* Line 257: the count reaches the threshold.
CallbackCommits(ctr, c) == ctr >= c.edgeCountBeforeTrigger

\* Lines 313-315: the sensor has been triggered long enough.
TriggerExpired(st, t, last, c) ==
    st = c.triggerState /\ (t - last) > c.timeSensorTriggered

\* The values of pulledUpOrDown and of edge: 0, 1, and 2 for any other.
HwValues == 0..2

\* Lines 276-279 and 296-299: the branch for a value that is not known. The
\* argument of logging.critical() reads self.FileName, an attribute the
\* object does not have (it has fileName, line 194): AttributeError before
\* the return statement of lines 280 and 300.
UnknownValue == "raises"

\* Lines 267-302: initializeSensor().
InterruptInitializeSensor ==
    /\ InterruptOnly
    /\ initRet = NotCalled
    /\ \E pud \in HwValues, edge \in HwValues :
          /\ hwValid' = (pud \in {0, 1} /\ edge \in {0, 1})
          /\ IF pud \notin {0, 1}
             THEN /\ initRet' = UnknownValue
                  /\ UNCHANGED <<iState, internalState, registered>>
             ELSE /\ iState' = 1 - icfg.triggerState
                  /\ internalState' = 1 - icfg.triggerState
                  /\ IF edge \notin {0, 1}
                     THEN initRet' = UnknownValue /\ UNCHANGED registered
                     ELSE initRet' = "True" /\ registered' = TRUE
    /\ UNCHANGED <<lastTimeTriggered, edgeCounter, icfg, ipc, burstStart,
                   burstLen, burstNormal, flips, synced, expired, committed,
                   sensorTime>>

\* Lines 239-264: _interruptCallback(), called by the GPIO library's thread.
InterruptCallback ==
    /\ InterruptOnly
    /\ registered
    /\ IF CallbackResets(sensorTime, lastTimeTriggered, icfg)
       THEN /\ edgeCounter' = 1
            /\ lastTimeTriggered' = sensorTime
            /\ UNCHANGED <<internalState, committed>>
       ELSE /\ edgeCounter < MaxEdgeCounter
            /\ edgeCounter' = edgeCounter + 1
            /\ internalState' = IF CallbackCommits(edgeCounter + 1, icfg)
                                THEN icfg.triggerState ELSE internalState
            /\ committed' = (committed \/ CallbackCommits(edgeCounter + 1, icfg))
            /\ UNCHANGED lastTimeTriggered
    /\ IF burstLen = 0 \/ sensorTime - burstStart > icfg.delayBetweenTriggers
       THEN /\ burstStart' = sensorTime
            /\ burstLen' = 1
            /\ burstNormal' = (/\ iState # icfg.triggerState
                               /\ internalState # icfg.triggerState)
            /\ flips' = 0
       ELSE /\ burstLen' = burstLen + 1
            /\ UNCHANGED <<burstStart, burstNormal, flips>>
    /\ synced' = FALSE
    /\ UNCHANGED <<iState, icfg, ipc, expired, initRet, registered, hwValid,
                   sensorTime>>

\* Lines 312-316: updateState(), the first half.
InterruptUpdateExpire ==
    /\ InterruptOnly
    /\ initRet = "True"
    /\ ipc = "idle"
    /\ internalState' =
          IF TriggerExpired(iState, sensorTime, lastTimeTriggered, icfg)
          THEN 1 - icfg.triggerState ELSE internalState
    /\ ipc' = "assign"
    /\ synced' = TRUE
    /\ expired' = TriggerExpired(iState, sensorTime, lastTimeTriggered, icfg)
    /\ UNCHANGED <<iState, lastTimeTriggered, edgeCounter, icfg, burstStart,
                   burstLen, burstNormal, flips, committed, initRet,
                   registered, hwValid, sensorTime>>

\* Line 319: updateState(), the second half.
InterruptUpdateAssign ==
    /\ InterruptOnly
    /\ ipc = "assign"
    /\ iState' = internalState
    /\ ipc' = "idle"
    /\ flips' = IF iState # icfg.triggerState
                   /\ internalState = icfg.triggerState
                THEN flips + 1 ELSE flips
    /\ committed' = FALSE
    /\ UNCHANGED <<internalState, lastTimeTriggered, edgeCounter, icfg,
                   burstStart, burstLen, burstNormal, synced, expired,
                   initRet, registered, hwValid, sensorTime>>

InterruptTick == SensorTick /\ InterruptOnly /\ UNCHANGED intrVars

InitInterrupt ==
    /\ iState = NoState
    /\ internalState = NoState
    /\ lastTimeTriggered = NeverTriggered
    /\ edgeCounter = 0
    /\ icfg \in InterruptConfigs
    /\ ipc = "idle"
    /\ burstStart = NeverTriggered
    /\ burstLen = 0
    /\ burstNormal = FALSE
    /\ flips = 0
    /\ synced = FALSE
    /\ expired = FALSE
    /\ committed = FALSE
    /\ initRet = NotCalled
    /\ registered = FALSE
    /\ hwValid = TRUE
    /\ IdleExecuter /\ IdleClock /\ IdlePolling /\ IdleDS18b20
    /\ IdleLocalServer

NextInterrupt ==
    \/ InterruptInitializeSensor
    \/ InterruptCallback
    \/ InterruptUpdateExpire
    \/ InterruptUpdateAssign
    \/ InterruptTick

SpecInterrupt == InitInterrupt /\ [][NextInterrupt]_vars

----------------------------------------------------------------------------
(* RaspberryPiDS18b20Sensor (lines 331-549). Temperatures and thresholds   *)
(* are in thousandths of a degree, the unit of the sensor file.            *)

\* The number after "t=" in the sensor file.
Temps == 0..MaxTemp

Orderings == {"LT", "EQ", "GT", "other"}

DSConfigs ==
    [triggerState : Bits, interval : 1..MaxInterval, hasThreshold : BOOLEAN,
     threshold : 1..MaxThreshold, ordering : Orderings]

\* Lines 500-527: the value that triggers a sensor in its normal state, with
\* GT read as "greater or equal".
TriggersGE(ord, v, th) ==
    CASE ord = "LT" -> v < th
      [] ord = "EQ" -> v = th
      [] ord = "GT" -> v >= th
      [] OTHER -> FALSE

\* Lines 500-527: the value that triggers a sensor in its normal state.
Triggers(ord, v, th) ==
    CASE ord = "LT" -> v < th
      [] ord = "EQ" -> v = th
      [] ord = "GT" -> v > th
      [] OTHER -> FALSE

\* Lines 468-495 with "less or equal" for "less than" and with "at least"
\* for "greater than" in the comparisons that take the sensor back.
RevertsStrict(ord, v, th) ==
    CASE ord = "LT" -> v > th
      [] ord = "EQ" -> v # th
      [] ord = "GT" -> v < th
      [] OTHER -> FALSE

\* Lines 468-495: the value that takes a triggered sensor back to normal.
Reverts(ord, v, th) ==
    CASE ord = "LT" -> v >= th
      [] ord = "EQ" -> v # th
      [] ord = "GT" -> v <= th
      [] OTHER -> FALSE

\* Lines 462-527: the state after the threshold check.
ThresholdState(c, st, v) ==
    IF ~c.hasThreshold THEN st
    ELSE IF st = c.triggerState
         THEN IF Reverts(c.ordering, v, c.threshold)
              THEN 1 - c.triggerState ELSE st
         ELSE IF Triggers(c.ordering, v, c.threshold)
              THEN c.triggerState ELSE st

\* IntervalPassed with "at least" for "more than".
IntervalReached(t, last, c) == (t - last) >= c.interval

\* Lines 446 and 536: more than interval seconds have passed since last.
IntervalPassed(t, last, c) == (t - last) > c.interval

\* Line 423: "not self.sensorData" is true of None and of 0.0.
Falsy(v) == v = NoData \/ v = 0

\* Lines 537-548: the StateChange that forceSendState() returns.
StateChange(c, st, v) ==
    [state |-> IF st = c.triggerState THEN 1 ELSE 0, sensorData |-> v]

\* Lines 409-431: initializeSensor(); the blocking _updateData() reads
\* temperature v, or fails (ok is false) and leaves _sensorData alone.
DSInitializeSensor ==
    /\ DS18b20Only
    /\ dpc = "new"
    /\ \E ok \in BOOLEAN, v \in Temps :
          LET temp == IF ok THEN v ELSE cachedData
          IN  /\ (~ok => v = 0)
              /\ dsState' = 1 - dcfg.triggerState
              /\ cachedData' = temp
              /\ sensorData' = temp
              /\ lastTemperatureUpdate' = sensorTime
              /\ IF Falsy(temp)
                 THEN /\ dpc' = "failed"
                      /\ UNCHANGED <<lastUpdate, dsSentAt>>
                 ELSE /\ dpc' = "idle"
                      /\ lastUpdate' = sensorTime
                      /\ dsSentAt' = sensorTime
    /\ UNCHANGED <<dcfg, threads, started, cachedFrom, dsRet, dsPrev,
                   sensorTime,
                   dsAlertRet, evaluated>>

\* Lines 445-453: updateState() up to the start of the refresh thread.
DSUpdateRefresh ==
    /\ DS18b20Only
    /\ dpc = "idle"
    /\ IF IntervalPassed(sensorTime, lastTemperatureUpdate, dcfg)
       THEN /\ started < MaxRefreshes
            /\ lastTemperatureUpdate' = sensorTime
            /\ started' = started + 1
            /\ threads' = threads \cup
                  {[id |-> started + 1, stage |-> "open", temp |-> NoData]}
       ELSE UNCHANGED <<lastTemperatureUpdate, started, threads>>
    /\ dpc' = "copy"
    /\ UNCHANGED <<dsState, sensorData, cachedData, lastUpdate, dcfg,
                   cachedFrom, dsRet, dsPrev, sensorTime,
                   dsSentAt, dsAlertRet, evaluated>>

\* Lines 455-527: updateState() from the copy of the cached value on.
DSUpdateEvaluate ==
    /\ DS18b20Only
    /\ dpc = "copy"
    /\ sensorData' = cachedData
    /\ dsState' = ThresholdState(dcfg, dsState, cachedData)
    /\ dsPrev' = dsState
    /\ evaluated' = cachedData
    /\ dpc' = "idle"
    /\ UNCHANGED <<cachedData, lastTemperatureUpdate, lastUpdate, dcfg,
                   threads, started, cachedFrom, dsRet, sensorTime,
                   dsSentAt, dsAlertRet>>

\* Lines 381-392: a refresh thread reads the sensor file; the read gives
\* temperature v, or the file cannot be read or parsed and the thread ends.
DSThreadRead ==
    /\ DS18b20Only
    /\ \E th \in threads :
          /\ th.stage = "open"
          /\ \/ \E v \in Temps :
                   threads' = (threads \ {th}) \cup
                      {[id |-> th.id, stage |-> "parsed", temp |-> v]}
             \/ threads' = threads \ {th}
    /\ UNCHANGED <<dsState, sensorData, cachedData, lastTemperatureUpdate,
                   lastUpdate, dcfg, dpc, started, cachedFrom, dsRet, dsPrev,
                   sensorTime,
                   dsSentAt, dsAlertRet, evaluated>>

\* DSThreadWrite with the temperature also stored in the public sensorData.
DSThreadWritePublic ==
    /\ DS18b20Only
    /\ \E th \in threads :
          /\ th.stage = "parsed"
          /\ cachedData' = th.temp
          /\ sensorData' = th.temp
          /\ cachedFrom' = th.id
          /\ threads' = threads \ {th}
    /\ UNCHANGED <<dsState, lastTemperatureUpdate, lastUpdate,
                   dcfg, dpc, started, dsRet, dsPrev, sensorTime,
                   dsSentAt, dsAlertRet, evaluated>>

\* Lines 394-397: a refresh thread stores its temperature under the lock.
DSThreadWrite ==
    /\ DS18b20Only
    /\ \E th \in threads :
          /\ th.stage = "parsed"
          /\ cachedData' = th.temp
          /\ cachedFrom' = th.id
          /\ threads' = threads \ {th}
    /\ UNCHANGED <<dsState, sensorData, lastTemperatureUpdate, lastUpdate,
                   dcfg, dpc, started, dsRet, dsPrev, sensorTime,
                   dsSentAt, dsAlertRet, evaluated>>

\* Lines 534-549: forceSendState().
DSForceSendState ==
    /\ DS18b20Only
    /\ dpc = "idle"
    /\ IF IntervalPassed(sensorTime, lastUpdate, dcfg)
       THEN /\ lastUpdate' = sensorTime
            /\ dsRet' = StateChange(dcfg, dsState, sensorData)
            /\ dsSentAt' = sensorTime
       ELSE /\ dsRet' = NoChange
            /\ UNCHANGED <<lastUpdate, dsSentAt>>
    /\ UNCHANGED <<dsState, sensorData, cachedData, lastTemperatureUpdate,
                   dcfg, dpc, threads, started, cachedFrom, dsPrev,
                   sensorTime,
                   dsAlertRet, evaluated>>

\* Lines 530-531: forceSendAlert().
DSForceSendAlert ==
    /\ DS18b20Only
    /\ dpc = "idle"
    /\ dsAlertRet' = None
    /\ UNCHANGED <<evaluated, dsState, sensorData, cachedData, lastTemperatureUpdate,
                   lastUpdate, dcfg, dpc, threads, started, cachedFrom,
                   dsRet, dsPrev, dsSentAt, sensorTime>>

\* A second passes for an initialised sensor.
DSTick ==
    /\ DS18b20Only
    /\ dpc \in {"idle", "copy"}
    /\ sensorTime < StartTime + MaxDSTime
    /\ sensorTime' = sensorTime + 1
    /\ UNCHANGED dsVars

InitDS18b20 ==
    /\ dsState = NoState
    /\ sensorData = NoData
    /\ cachedData = NoData
    /\ lastTemperatureUpdate = NoTime
    /\ lastUpdate = NoTime
    /\ dcfg \in DSConfigs
    /\ dpc = "new"
    /\ threads = {}
    /\ started = 0
    /\ cachedFrom = 0
    /\ dsRet = NoChange
    /\ dsPrev = NoState
    /\ dsSentAt = NoTime
    /\ dsAlertRet = NotCalled
    /\ evaluated = NoData
    /\ IdleExecuter /\ IdleClock /\ IdlePolling /\ IdleInterrupt
    /\ IdleLocalServer

NextDS18b20 ==
    \/ DSInitializeSensor
    \/ DSUpdateRefresh
    \/ DSUpdateEvaluate
    \/ DSThreadRead
    \/ DSThreadWrite
    \/ DSForceSendState
    \/ DSForceSendAlert
    \/ DSTick

SpecDS18b20 == InitDS18b20 /\ [][NextDS18b20]_vars

----------------------------------------------------------------------------
(* LocalServerSession.handle() (managerClientDatabase/lib/localServer.py,  *)
(* lines 47-164): one request of a local client.                           *)

\* The values of "message": absent, "option", or anything else.
Tags == {"absent", "option", "other"}

\* The requests a client may send.
Requests ==
    {Request(j, "absent", "absent", "absent", "absent", "absent") :
        j \in {"invalid", "other"}}
    \cup {Request("object", t, pl, "absent", "absent", "absent") :
             t \in Tags, pl \in {"absent", "other"}}
    \cup {Request("object", t, "object", ot, v, td) :
             t \in Tags,
             ot \in {"absent", "refused", "alertSystemActive", "other"},
             v \in {"absent", "refused", "float"},
             td \in {"absent", "refused", "int"}}

\* The outcome of an expression that raises.
Raises == "raises"

\* incomingMessage["message"] (lines 59, 65, 81, 103, 118, 134, 155): the
\* name is unbound, the value is no object or it has no such key.
MessageOf(im) ==
    IF im.json = "object" /\ im.tag # "absent" THEN im.tag ELSE Raises

\* Extracts that does not look at timeDelay.
ExtractsNoDelay(im) ==
    /\ im.payload = "object"
    /\ im.optionType \in {"alertSystemActive", "other"}
    /\ im.value = "float"

\* Lines 91-93: the three fields are there and str(), float() and int()
\* accept them.
Extracts(im) ==
    /\ im.payload = "object"
    /\ im.optionType \in {"alertSystemActive", "other"}
    /\ im.value = "float"
    /\ im.timeDelay = "int"

\* The reply after sendOption() is the response whatever it returned.
OptionSiteAlwaysOk(r) == "ok"

\* Lines 127-128 and 146: the reply after sendOption() returned r.
OptionSite(r) == IF r THEN "ok" ELSE "failed"

\* The "error" of the message that a place of handle() builds (lines 66, 82,
\* 104, 119, 156; none at 133-138).
ErrorOf(site) ==
    CASE site = "tag" -> "only option message valid"
      [] site = "invalid" -> "received json message invalid"
      [] site = "attrs" -> "received attributes invalid"
      [] site = "type" -> "only option type 'alertSystemActive' allowed"
      [] site = "failed" -> "sending message to server failed"
      [] OTHER -> "none"

\* Lines 135-137: the payload of the response.
ResultOf(site) == IF site = "ok" THEN "ok" ELSE "none"

\* The try blocks that reply (lines 62-69, 78-85, 100-107, 115-122, 131-142,
\* 152-159): the message is built and passed to send(), which writes it to
\* the client (ok) or raises; an exception of either is caught.
Reply(site, im, ok) ==
    IF MessageOf(im) = Raises
    THEN UNCHANGED <<message, written, sends>>
    ELSE /\ message' = Message(MessageOf(im), ErrorOf(site), ResultOf(site))
         /\ written' = ok
         /\ sends' = sends + 1

\* Line 52: self.request.recv(); an exception of recv() leaves handle().
HandleRecv ==
    /\ LocalServerOnly
    /\ hpc = "start"
    /\ recvs' = recvs + 1
    /\ \E ok \in BOOLEAN : hpc' = IF ok THEN "parse" ELSE "raised"
    /\ UNCHANGED <<data, incomingMessage, message, written, sends,
                   optionCalls, optionResult>>

\* Lines 55-87: json.loads() and the check of the tag.
HandleParse ==
    /\ LocalServerOnly
    /\ hpc = "parse"
    /\ incomingMessage' = IF data.json = "invalid" THEN Unbound ELSE data
    /\ \E ok \in BOOLEAN :
          CASE MessageOf(incomingMessage') = Raises ->
                  Reply("invalid", incomingMessage', ok) /\ hpc' = "done"
            [] MessageOf(incomingMessage') = "other" ->
                  Reply("tag", incomingMessage', ok) /\ hpc' = "done"
            [] OTHER ->
                  UNCHANGED <<message, written, sends>> /\ hpc' = "extract"
    /\ UNCHANGED <<data, recvs, optionCalls, optionResult>>

\* Lines 90-109: optionType, value and timeDelay of the payload.
HandleExtract ==
    /\ LocalServerOnly
    /\ hpc = "extract"
    /\ \E ok \in BOOLEAN :
          IF Extracts(incomingMessage)
          THEN UNCHANGED <<message, written, sends>> /\ hpc' = "type"
          ELSE Reply("attrs", incomingMessage, ok) /\ hpc' = "done"
    /\ UNCHANGED <<data, incomingMessage, recvs, optionCalls, optionResult>>

\* Lines 112-124: only "alertSystemActive" is allowed.
HandleOptionType ==
    /\ LocalServerOnly
    /\ hpc = "type"
    /\ \E ok \in BOOLEAN :
          IF incomingMessage.optionType # "alertSystemActive"
          THEN Reply("type", incomingMessage, ok) /\ hpc' = "done"
          ELSE UNCHANGED <<message, written, sends>> /\ hpc' = "option"
    /\ UNCHANGED <<data, incomingMessage, recvs, optionCalls, optionResult>>

\* Lines 127-161: sendOption() returns r, and the reply.
HandleSendOption ==
    /\ LocalServerOnly
    /\ hpc = "option"
    /\ \E r \in BOOLEAN, ok \in BOOLEAN :
          /\ optionCalls' = optionCalls + 1
          /\ optionResult' = IF r THEN "True" ELSE "False"
          /\ Reply(OptionSite(r), incomingMessage, ok)
    /\ hpc' = "done"
    /\ UNCHANGED <<data, incomingMessage, recvs>>

\* A client has connected, with any request.
InitLocalServer ==
    /\ data \in Requests
    /\ hpc = "start"
    /\ incomingMessage = Unbound
    /\ message = NoMessage
    /\ written = FALSE
    /\ recvs = 0
    /\ sends = 0
    /\ optionCalls = 0
    /\ optionResult = NotCalled
    /\ IdleExecuter /\ IdleSensors

NextLocalServer ==
    \/ HandleRecv
    \/ HandleParse
    \/ HandleExtract
    \/ HandleOptionType
    \/ HandleSendOption

SpecLocalServer == InitLocalServer /\ [][NextLocalServer]_vars

----------------------------------------------------------------------------
(* The events with a state field, built for sensors in any state: the     *)
(* diff path of execute() (lines 593-595, 625-737) and forceSendState()   *)
(* of the temperature sensor (lines 537-548), as functions of the sensor. *)

\* The sensors of the diff path: their state may change and execute() builds
\* their events.
DiffConfigs == {c \in Configs : c.active /\ ~c.handlesStateMsgs}

\* The temperature sensors, which differ in triggerState only as far as
\* forceSendState() goes.
HeartbeatConfigs ==
    {c \in DSConfigs : c.interval = 1 /\ c.threshold = 1 /\ c.ordering = "GT"
                        /\ c.hasThreshold}

\* Lines 593-595 and 625-737: updateState() changed the state of sensor i and
\* forceSendAlert() returned None.
BuildDiffEvent ==
    /\ \E i \in SensorIds :
          /\ state' = [state EXCEPT ![i] = 1 - state[i]]
          /\ prevState' = state[i]
          /\ oldState' = state[i]
          /\ currentState' = 1 - state[i]
          /\ idx' = i
          /\ dispatched' = <<DiffEvent(cfg[i], i, 1 - state[i])>>
    /\ UNCHANGED <<serverComm, connection, connected, isInitialized, pc, cfg,
                   forceCalls, cycleEvents, forceRet, lastFullStateSent, now,
                   running, sendFailed, lastSnap, steady, cycled, lastDiff,
                   afterDrop>>
    /\ UNCHANGED <<sensorTime, pollVars, intrVars, dsVars, lsVars>>

\* Lines 537-548: forceSendState() builds the StateChange.
BuildStateChange ==
    /\ dsRet' = StateChange(dcfg, dsState, sensorData)
    /\ UNCHANGED <<dsState, sensorData, cachedData, lastTemperatureUpdate,
                   lastUpdate, dcfg, dpc, threads, started, cachedFrom,
                   dsPrev, dsSentAt, dsAlertRet, evaluated>>
    /\ UNCHANGED <<execVars, sensorTime, pollVars, intrVars, lsVars>>

InitEvents ==
    /\ serverComm = "comm"
    /\ connected = TRUE
    /\ state \in [SensorIds -> Bits]
    /\ cfg \in [SensorIds -> DiffConfigs]
    /\ InitExecuterLocals
    /\ dsState \in Bits
    /\ sensorData \in 1..MaxTemp
    /\ cachedData = sensorData
    /\ lastTemperatureUpdate = StartTime
    /\ lastUpdate = StartTime
    /\ dcfg \in HeartbeatConfigs
    /\ dpc = "idle"
    /\ threads = {}
    /\ started = 0
    /\ cachedFrom = 0
    /\ dsRet = NoChange
    /\ dsPrev = NoState
    /\ dsSentAt = StartTime
    /\ dsAlertRet = NotCalled
    /\ evaluated = NoData
    /\ IdleClock /\ IdlePolling /\ IdleInterrupt /\ IdleLocalServer

NextEvents ==
    \/ BuildDiffEvent
    \/ BuildStateChange

SpecEvents == InitEvents /\ [][NextEvents]_vars

----------------------------------------------------------------------------
(* The claims about SensorExecuter.execute(). *)

\* The executer has just finished the iteration of the transition pass for
\* sensor i: oldState, currentState, prevState, forceRet and dispatched are
\* those of that iteration.
JustPolled(i) ==
    \/ pc = "poll" /\ idx = i + 1
    \/ pc = "force" /\ idx = 1 /\ i = NumSensors

\* The step is one of the executer in the transition pass, for sensor i.
PollStep(i) == pc = "poll" /\ idx = i /\ <<pc', idx'>> # <<pc, idx>>

\* The tasks of seq that the diff path started for sensor i.
DiffTasks(seq, i) ==
    {k \in 1..Len(seq) : seq[k].via = "diff" /\ seq[k].sensor = i}

\* C1: for a sensor with handlesStateMsgs unset, an iteration of the
\* transition pass in which forceSendAlert() returned None and the state read
\* before updateState() differs from the one read after it starts exactly one
\* task, for that sensor: into triggerState a SensorAlert with state 1 if
\* triggerAlert and a StateChange with state 1 otherwise, out of triggerState
\* a SensorAlert with state 0 if triggerAlertNormal and a StateChange with
\* state 0 otherwise.
C1_TruthTable ==
    \A i \in SensorIds :
        (/\ JustPolled(i)
         /\ ~cfg[i].handlesStateMsgs
         /\ forceRet = NoObject
         /\ prevState # currentState)
        => /\ Len(dispatched) = 1
           /\ dispatched[1].sensor = i
           /\ dispatched[1].via = "diff"
           /\ currentState = state[i]
           /\ IF currentState = cfg[i].triggerState
              THEN /\ dispatched[1].state = 1
                   /\ dispatched[1].type =
                        IF cfg[i].triggerAlert THEN "sensorAlert"
                                               ELSE "stateChange"
              ELSE /\ dispatched[1].state = 0
                   /\ dispatched[1].type =
                        IF cfg[i].triggerAlertNormal THEN "sensorAlert"
                                                     ELSE "stateChange"

\* C1's case: a sensor that alerts in neither direction of its own, or in
\* the normal direction only, has just left its triggered state.
C1_Witness ==
    \E i \in SensorIds :
        /\ JustPolled(i)
        /\ ~cfg[i].handlesStateMsgs
        /\ forceRet = NoObject
        /\ prevState = cfg[i].triggerState
        /\ currentState # cfg[i].triggerState
        /\ cfg[i].triggerAlertNormal
        /\ ~cfg[i].triggerAlert
        /\ Len(dispatched) = 1

\* C2: the diff path starts a task for a sensor only in an iteration whose
\* updateState() changed that sensor's state: after the event of one change
\* no cycle starts another one until the state changes again, whatever became
\* of the tasks started before.
C2_OneEventPerEdge ==
    [][\A i \in SensorIds :
          (PollStep(i) /\ DiffTasks(dispatched', i) # {})
          => (state'[i] # state[i] /\ Cardinality(DiffTasks(dispatched', i)) = 1)
      ]_vars

\* C2's case: the diff path has sent an event for sensor i, a send task has
\* failed, and a later iteration for i, with the state as it was, starts
\* nothing.
C2_Witness ==
    \E i \in SensorIds :
        /\ JustPolled(i)
        /\ lastDiff = i
        /\ sendFailed
        /\ ~cfg[i].handlesStateMsgs
        /\ forceRet = NoObject
        /\ prevState = currentState
        /\ currentState = cfg[i].triggerState
        /\ dispatched = <<>>

\* C4: an iteration in which forceSendAlert() returned a SensorAlert starts
\* exactly that alert and nothing of the diff path, also when the state
\* changed in it, and the executer's known state is the changed one; an
\* iteration in which the state did not change starts nothing of the diff
\* path, so the change that was skipped is not sent later.
C4_ForcedAlertFirst ==
    /\ [](\A i \in SensorIds :
            (JustPolled(i) /\ forceRet # NoObject)
            => /\ dispatched = <<forceRet>>
               /\ forceRet.via = "forceSendAlert"
               /\ oldState = currentState
               /\ currentState = state[i])
    /\ [][\A i \in SensorIds :
            (PollStep(i) /\ state'[i] = state[i])
            => DiffTasks(dispatched', i) = {}]_vars

\* C4's case: the state changed in an iteration that sent a forced alert.
C4_Witness ==
    \E i \in SensorIds :
        /\ JustPolled(i)
        /\ ~cfg[i].handlesStateMsgs
        /\ forceRet # NoObject
        /\ prevState # currentState
        /\ dispatched = <<forceRet>>

\* C5: for a sensor with handlesStateMsgs set, every task the executer starts
\* is the object its forceSendAlert() or forceSendState() returned, never one
\* of the diff path.
C5_OptOut ==
    \A k \in 1..Len(dispatched) :
        (dispatched[k].sensor \in SensorIds
         /\ cfg[dispatched[k].sensor].handlesStateMsgs)
        => /\ dispatched[k] = forceRet
           /\ dispatched[k].via \in {"forceSendAlert", "forceSendState"}

\* C5's case: the state of a sensor with handlesStateMsgs set changed, its
\* forceSendAlert() returned None, and nothing was started.
C5_Witness ==
    \E i \in SensorIds :
        /\ JustPolled(i)
        /\ cfg[i].handlesStateMsgs
        /\ forceRet = NoObject
        /\ prevState # currentState
        /\ dispatched = <<>>

\* C8, as claimed: while the connection has been up since the last snapshot
\* and the loop makes a pass in every clock second, the last 60 clock seconds
\* now-59..now hold a snapshot dispatch.
C8_EverySixtySeconds ==
    (connected /\ steady /\ lastSnap # NoSnapshot)
    => now - lastSnap < FullStateInterval

\* C8, amended: once the timer check of the current clock second has run, the
\* last snapshot is at most 60 seconds old, and while the connection has been
\* up since the last snapshot and the loop makes a pass in every clock second
\* it is never more than 61 seconds old: every 61 clock seconds hold a
\* snapshot dispatch.
C8_EverySixtyOneSeconds ==
    /\ cycled = "checked" => now - lastSnap <= FullStateInterval
    /\ (connected /\ steady /\ lastSnap # NoSnapshot)
       => now - lastSnap <= FullStateInterval + 1

\* C8's case: 60 seconds of unbroken connection after a snapshot, the loop
\* cycling, and no further snapshot in them.
C8_Witness ==
    /\ connected
    /\ steady
    /\ cycled = "checked"
    /\ now - lastSnap = FullStateInterval

\* The step is the timer check of the executer, and it started a task.
SnapshotStep == pc = "full" /\ pc' = "check" /\ dispatched' # <<>>

\* C9: the executer starts a snapshot task only in its timer check, one per
\* check, and only as the first snapshot or more than 60 seconds after the
\* previous one, and it sets its timer to the time of the dispatch.
C9_OnlyOnTimer ==
    /\ [](\A k \in 1..Len(dispatched) :
            dispatched[k].type = "sensorsState"
            => Len(dispatched) = 1 /\ pc = "check")
    /\ [][SnapshotStep
          => /\ lastSnap = NoSnapshot \/ now - lastSnap > FullStateInterval
             /\ lastFullStateSent' = now
             /\ Len(dispatched') = 1
             /\ dispatched'[1].type = "sensorsState"]_vars

\* C9's case: a second snapshot, the connection having been lost and
\* established again since the one before.
C9_Witness ==
    /\ afterDrop
    /\ pc = "check"
    /\ Len(dispatched) = 1
    /\ dispatched[1].type = "sensorsState"
    /\ lastSnap = now
    /\ lastSnap > StartTime + FullStateInterval

\* C10: while there is no connection object, or at the head of the loop while
\* the client is not connected, no step changes a sensor's state, the locals
\* of the sensor passes or the timer, no step starts a task, and the executer
\* stays where it is.
C10_IdleWhileDisconnected ==
    [][((pc = "wait" /\ connection = None) \/ (pc = "check" /\ ~connected))
       => /\ pc' = pc
          /\ running' <= running
          /\ UNCHANGED <<idx, state, oldState, currentState, prevState,
                         forceRet, dispatched, lastFullStateSent, lastSnap,
                         lastDiff>>]_vars

\* C10's case: after a cycle with a snapshot the connection is lost and the
\* executer has slept at the head of the loop.
C10_Witness ==
    /\ pc = "check"
    /\ ~connected
    /\ cycled = "slept"
    /\ lastSnap # NoSnapshot

----------------------------------------------------------------------------
(* The claims about the sensors. *)

\* C3: the state of a threshold-polling sensor changes only on an
\* updateState() that completes a run of at least thresStateCtr consecutive
\* reads that differ from the current state (flipRun is the length of the run
\* that the last change completed, 0 while the state has not changed).
C3_DebouncedFlip == flipRun = 0 \/ flipRun >= thresStateCtr

\* C6: after a burst of burstLen callbacks within delayBetweenTriggers that
\* began with the sensor in its normal state, once updateState() has run after
\* the last of them: a burst shorter than edgeCountBeforeTrigger has left the
\* state normal, and any other burst has taken the state from normal to
\* triggered exactly once.
C6_BurstFlipsOnce ==
    (burstNormal /\ burstLen > 0 /\ synced /\ ipc = "idle")
    => IF burstLen < icfg.edgeCountBeforeTrigger
       THEN iState # icfg.triggerState /\ flips = 0
       ELSE flips = 1

\* C7: with hasThreshold set and ordering GT, an updateState() of a sensor in
\* its normal state leaves it triggered iff the value is greater than the
\* threshold, and an updateState() of a triggered sensor leaves it normal iff
\* the value is at most the threshold (dsPrev is the state before the last
\* updateState(), sensorData the value it evaluated).
C7_GreaterThan ==
    (dcfg.hasThreshold /\ dcfg.ordering = "GT" /\ dsPrev # NoState)
    => /\ dsPrev # dcfg.triggerState
          => (dsState = dcfg.triggerState <=> sensorData > dcfg.threshold)
       /\ dsPrev = dcfg.triggerState
          => (dsState # dcfg.triggerState <=> sensorData <= dcfg.threshold)

\* C7's case: a triggered sensor goes back to normal at a value equal to the
\* threshold, and the next updateState() at that value leaves it normal.
C7_Witness ==
    /\ dcfg.hasThreshold
    /\ dcfg.ordering = "GT"
    /\ dpc = "idle"
    /\ started = MaxRefreshes
    /\ dsPrev = 1 - dcfg.triggerState
    /\ dsState = 1 - dcfg.triggerState
    /\ sensorData = dcfg.threshold
    /\ dsRet.state = 1

----------------------------------------------------------------------------
(* The claims about the send tasks and about faulty sensors. *)

\* C11: the poll loop never waits on a send task: wherever the executer is
\* in a cycle of a connected client, its next step can be taken whatever the
\* number of AsynchronousSender threads alive, and no step of the executer
\* takes a thread away (it starts threads and joins none).
C11_NeverWaits ==
    /\ []((pc \in {"poll", "force", "full"} \/ (pc = "check" /\ connected))
          => ENABLED ExecuterStep)
    /\ [][ExecuterStep => running' >= running]_vars

\* C11's case: the executer has gone on to the next sensor after a dispatch
\* while the send tasks of two earlier dispatches are still alive.
C11_Witness ==
    /\ running >= 2
    /\ pc = "poll"
    /\ idx > 1
    /\ dispatched # <<>>
    /\ lastSnap # NoSnapshot

\* C12: a sensor whose updateState(), forceSendAlert() or forceSendState()
\* raises does not halt the poll loop: the executer goes on to the remaining
\* sensors and the following cycles, so execute() never ends.
C12_FaultySensorIsolated == pc # "halted"

----------------------------------------------------------------------------
(* The claims about the temperature sensor's intervals. *)

\* C13: forceSendState() returns a StateChange exactly when more than
\* interval seconds have passed since the last StateChange it returned (since
\* initializeSensor() for the first), whether or not the state has changed,
\* it reports the state and the data the sensor holds, and forceSendAlert()
\* returns None in every state.
C13_Heartbeat ==
    /\ [](dsAlertRet \in {NotCalled, None})
    /\ [][DSForceSendState
          => IF sensorTime - dsSentAt > dcfg.interval
             THEN /\ dsRet' = StateChange(dcfg, dsState, sensorData)
                  /\ dsSentAt' = sensorTime
             ELSE /\ dsRet' = NoChange
                  /\ dsSentAt' = dsSentAt]_vars

\* C13's case: forceSendAlert() has returned None and forceSendState()
\* returns its second StateChange, the last updateState() having left the
\* state as it was.
C13_Witness ==
    /\ dsAlertRet = None
    /\ dsRet # NoChange
    /\ dsPrev = dsState
    /\ dsSentAt = sensorTime
    /\ sensorTime - StartTime >= 2 * (dcfg.interval + 1)

\* C14: two consecutive starts of a background refresh are more than
\* refreshInterval seconds apart (once a refresh has been started,
\* lastTemperatureUpdate is the time the last one was started).
C14_RefreshInterval ==
    [][(started > 0 /\ started' > started)
       => sensorTime - lastTemperatureUpdate > RefreshInterval]_vars

----------------------------------------------------------------------------
(* The claims about LocalServerSession.handle(). *)

\* An option request for "alertSystemActive" with all its fields.
WellFormedOption(req) ==
    /\ req.json = "object"
    /\ req.tag = "option"
    /\ req.payload = "object"
    /\ req.optionType = "alertSystemActive"
    /\ req.value = "float"
    /\ req.timeDelay = "int"

\* C15: for a well-formed option request with optionType alertSystemActive,
\* handle() calls sendOption() once and passes one message to send(): the
\* response (message "option", result ok) if sendOption() returned true, the
\* error "sending message to server failed" if it returned false; and the
\* step after the check of the option type ends handle() normally, whether or
\* not send() could write to the client.
C15_OptionReply ==
    /\ []((WellFormedOption(data) /\ hpc = "done")
          => /\ optionCalls = 1
             /\ sends = 1
             /\ message = IF optionResult = "True"
                          THEN Message("option", "none", "ok")
                          ELSE Message("option",
                                       "sending message to server failed",
                                       "none"))
    /\ [][(WellFormedOption(data) /\ hpc = "option") => hpc' = "done"]_vars

\* C15's case: sendOption() returned false, the write of the error response
\* to the client failed, and handle() has returned.
C15_Witness ==
    /\ WellFormedOption(data)
    /\ hpc = "done"
    /\ optionResult = "False"
    /\ sends = 1
    /\ ~written

\* C16: for a request that is not valid JSON, or is JSON without a "message"
\* field, handle() passes to send() an error response with the reason
\* "received json message invalid" and no message field, and does not call
\* sendOption().
C16_InvalidJsonReply ==
    (hpc = "done" /\ (data.json # "object" \/ data.tag = "absent"))
    => /\ sends = 1
       /\ message = Message("absent", "received json message invalid", "none")
       /\ optionCalls = 0

\* C17: sendOption() is called only for a well-formed option request for
\* alertSystemActive; for a request with another tag, with missing or invalid
\* payload fields or with another optionType, handle() never calls it and
\* passes to send() one error response that names the reason and carries the
\* tag of the request.
C17_OnlyAlertSystemActive ==
    /\ optionCalls > 0 => WellFormedOption(data)
    /\ (/\ hpc = "done"
        /\ data.json = "object"
        /\ data.tag # "absent"
        /\ ~WellFormedOption(data))
       => /\ optionCalls = 0
          /\ sends = 1
          /\ message =
                Message(data.tag,
                        IF data.tag # "option"
                        THEN "only option message valid"
                        ELSE IF \/ data.payload # "object"
                                \/ data.optionType \in {"absent", "refused"}
                                \/ data.value # "float"
                                \/ data.timeDelay # "int"
                        THEN "received attributes invalid"
                        ELSE "only option type 'alertSystemActive' allowed",
                        "none")

\* C17's case: an option request with all its fields for another option
\* type has been answered.
C17_Witness ==
    /\ hpc = "done"
    /\ data.tag = "option"
    /\ data.optionType = "other"
    /\ data.value = "float"
    /\ data.timeDelay = "int"
    /\ sends = 1
    /\ written

\* C18: when handle() returns it has called recv() once and send() once, and
\* sendOption() at most once.
C18_OneShot ==
    hpc = "done" => (recvs = 1 /\ sends = 1 /\ optionCalls <= 1)

----------------------------------------------------------------------------
(* The claims about the steps of the interrupt sensor. *)

\* C19: _internalState becomes the triggered state only in a callback that
\* comes no more than delayBetweenTriggers after lastTimeTriggered and whose
\* increment takes edgeCounter to edgeCountBeforeTrigger or beyond; a callback
\* that comes later than that sets edgeCounter to 1 and lastTimeTriggered to
\* its time and leaves _internalState alone.
C19_CallbackCommit ==
    /\ [][(internalState # icfg.triggerState
           /\ internalState' = icfg.triggerState)
          => /\ InterruptCallback
             /\ sensorTime - lastTimeTriggered <= icfg.delayBetweenTriggers
             /\ edgeCounter' = edgeCounter + 1
             /\ edgeCounter' >= icfg.edgeCountBeforeTrigger
             /\ lastTimeTriggered' = lastTimeTriggered]_vars
    /\ [][(InterruptCallback
           /\ sensorTime - lastTimeTriggered > icfg.delayBetweenTriggers)
          => /\ edgeCounter' = 1
             /\ lastTimeTriggered' = sensorTime
             /\ internalState' = internalState]_vars

\* C19's case: after a callback that started a new count at a later second,
\* the callback that takes the count to an edgeCountBeforeTrigger of three
\* has committed the triggered state.
C19_Witness ==
    /\ internalState = icfg.triggerState
    /\ iState # icfg.triggerState
    /\ icfg.edgeCountBeforeTrigger = 3
    /\ edgeCounter = 3
    /\ lastTimeTriggered > StartTime

\* C20: an updateState() of a triggered sensor takes the state back to normal
\* exactly if it found more than timeSensorTriggered seconds passed since
\* lastTimeTriggered: not before that time, and at the first updateState()
\* after it.
C20_RevertAfterHold ==
    [][(InterruptUpdateAssign /\ iState = icfg.triggerState)
       => (iState' # icfg.triggerState <=> expired)]_vars

\* C21: when a callback has set the triggered state, the next updateState()
\* that completes leaves the state triggered.
C21_CommitApplied ==
    [][(InterruptUpdateAssign /\ committed)
       => iState' = icfg.triggerState]_vars

\* C28: initializeSensor() of the interrupt sensor returns False and registers
\* no callback when pulledUpOrDown or edge is not 0 or 1, and returns True
\* with state and _internalState normal when both are.
C28_InvalidHardwareConfig ==
    [][InterruptInitializeSensor
       => IF hwValid'
          THEN /\ initRet' = "True"
               /\ iState' = 1 - icfg.triggerState
               /\ internalState' = 1 - icfg.triggerState
          ELSE /\ initRet' = "False"
               /\ ~registered']_vars

\* The ordering relation of the threshold policy, read off its name.
Satisfies(ord, v, th) ==
    CASE ord = "LT" -> v < th
      [] ord = "EQ" -> v = th
      [] ord = "GT" -> v > th

\* C22: with hasThreshold set and ordering LT, EQ or GT, after an
\* updateState() the sensor is triggered iff the value it evaluated satisfies
\* the ordering against the threshold, whatever the state before; with
\* hasThreshold unset or another ordering the state is the one before.
C22_ThresholdPolicy ==
    (dsPrev # NoState /\ dpc = "idle")
    => IF dcfg.hasThreshold /\ dcfg.ordering \in {"LT", "EQ", "GT"}
       THEN dsState = dcfg.triggerState
            <=> Satisfies(dcfg.ordering, sensorData, dcfg.threshold)
       ELSE dsState = dsPrev

\* C22's case: a sensor with ordering LT that was triggered has gone back to
\* normal at a value equal to the threshold.
C22_Witness ==
    /\ dcfg.hasThreshold
    /\ dcfg.ordering = "LT"
    /\ dpc = "idle"
    /\ dsPrev = dcfg.triggerState
    /\ dsState = 1 - dcfg.triggerState
    /\ sensorData = dcfg.threshold

\* C23: in a connected cycle no sensor's forceSendState() has been called while
\* the transition pass runs, each call of the second pass starts one sender
\* for a result that is not None and none otherwise, whether or not the sensor
\* had an event in the transition pass, and when the second pass is over
\* forceSendState() has been called exactly once on every sensor.
C23_ForceStatePass ==
    [][/\ PollSensor => \A i \in SensorIds : forceCalls[i] = 0
       /\ ForceState
          => /\ forceCalls[idx] = 0
             /\ dispatched' = IF forceRet' # NoObject
                              THEN <<forceRet'>> ELSE <<>>
       /\ FullState => \A i \in SensorIds : forceCalls[i] = 1]_vars

\* C23's case: the forceSendState pass has just dispatched the StateChange of
\* a sensor whose transition event was dispatched earlier in the same cycle.
C23_Witness ==
    /\ pc \in {"force", "full"}
    /\ \E i \in cycleEvents :
          /\ forceCalls[i] = 1
          /\ forceRet.sensor = i
          /\ forceRet.via = "forceSendState"
          /\ dispatched = <<forceRet>>

\* C24: the state field of an event of the diff path is 1 if the state of its
\* sensor is the sensor's triggerState and 0 otherwise, and so is the state
\* field of the StateChange of the temperature sensor's forceSendState().
C24_TranslatedState ==
    /\ \A k \in 1..Len(dispatched) :
          LET ev == dispatched[k]
          IN  ev.via = "diff"
              => /\ ev.state \in Bits
                 /\ ev.state = 1 <=> state[ev.sensor] = cfg[ev.sensor].triggerState
    /\ dsRet # NoChange
       => /\ dsRet.state \in Bits
          /\ dsRet.state = 1 <=> dsState = dcfg.triggerState

\* C24's case: with triggerState 0, a sensor whose state 0 gave a diff event
\* and a temperature sensor whose state 1 gave a heartbeat.
C24_Witness ==
    /\ Len(dispatched) = 1
    /\ dispatched[1].via = "diff"
    /\ cfg[dispatched[1].sensor].triggerState = 0
    /\ state[dispatched[1].sensor] = 0
    /\ dsRet # NoChange
    /\ dcfg.triggerState = 0
    /\ dsState = 1

\* C25: a refresh thread that stores its temperature was started no earlier
\* than the refresh whose temperature it replaces (cachedFrom is the number
\* of the refresh that gave the cached value, 0 for the blocking read of
\* initializeSensor()).
C25_NoStaleOverwrite ==
    [][DSThreadWrite => cachedFrom' >= cachedFrom]_vars

\* C26: once updateState() has returned, the public sensorData, which
\* execute() copies into the event of a transition, is the value that
\* updateState() compared with the threshold, whatever the refresh threads
\* have stored since.
C26_EventDataIsEvaluated ==
    (dpc = "idle" /\ dsPrev # NoState) => sensorData = evaluated

\* C26's case: updateState() has taken the sensor over its threshold and a
\* refresh thread has stored another value before the event is built.
C26_Witness ==
    /\ dpc = "idle"
    /\ dcfg.hasThreshold
    /\ dsPrev # NoState
    /\ dsPrev # dsState
    /\ cachedFrom = started
    /\ started > 0
    /\ cachedData # evaluated
    /\ sensorData = evaluated

\* C27: initializeSensor() of the temperature sensor has returned False (dpc
\* is "failed") exactly when its blocking read stored no value, so that it
\* returns True for every value it parsed, a temperature of 0 included.
C27_InitTrueWhenParsed ==
    dpc # "new" => (dpc = "failed" <=> cachedData = NoData)

====
